---- MODULE Spec2Model ----
(***************************************************************************)
(* Model of the oxydized-money algebra: Amount, CurrencyError and the      *)
(* error-coalescing AmountResult wrapper with its operator overloads       *)
(* (src/src/amount.rs, src/src/error.rs, src/src/result.rs,                *)
(* src/src/ops/*.rs).                                                      *)
(*                                                                         *)
(* Decimal (rust_decimal, re-exported by src/src/lib.rs:17) is modelled as *)
(* an integer count of the smallest representable unit: addition,          *)
(* subtraction, negation and multiplication are exact, division rounds     *)
(* the quotient to a representable value (toward zero), and a result       *)
(* outside the representable range aborts the operation (rust_decimal      *)
(* panics on overflow), so no successor state exists for it.               *)
(***************************************************************************)
EXTENDS Integers, Sequences, FiniteSets, TLC

VARIABLES
    accum,   \* the AmountResult an expression or accumulation currently holds
    last,    \* the last operator call: [op, lhs, rhs, out]
    items,   \* the collection handed to Iterator::sum
    amt      \* an Amount binding (let mut amt = Amount::new(...))

vars == <<accum, last, items, amt>>

\* ------------------------------------------------------------- bounds
\* Operand quantities are drawn from -MaxVal..MaxVal.
MaxVal == 1
\* Largest magnitude a Decimal result may take before the operation aborts.
MaxAccum == 3
\* Longest collection handed to sum.
MaxLen == 3

\* ------------------------------------------------------------- values
Currencies == {"EUR", "USD"}

Decimals == (0 - MaxVal)..MaxVal

DecimalRange == (0 - MaxAccum)..MaxAccum

\* Amount::new
AmountNew(value, currency) == [value |-> value, currency |-> currency]

Amounts == {AmountNew(v, c) : v \in Decimals, c \in Currencies}

\* enum CurrencyError
Mismatch(c1, c2) == [kind |-> "Mismatch", c1 |-> c1, c2 |-> c2]

DivideByZero == [kind |-> "DivideByZero", c1 |-> "-", c2 |-> "-"]

Unknown == [kind |-> "Unknown", c1 |-> "-", c2 |-> "-"]

CurrencyErrors ==
    {Unknown, DivideByZero} \cup {Mismatch(c1, c2) : c1 \in Currencies, c2 \in Currencies}

\* std::result::Result<Amount, CurrencyError>, wrapped by AmountResult
Ok(amount) == [tag |-> "Ok", val |-> amount]

Err(error) == [tag |-> "Err", val |-> error]

\* impl From<Amount> for AmountResult
FromAmount(amount) == Ok(amount)

\* impl From<CurrencyError> for AmountResult
FromCurrencyError(error) == Err(error)

AmountResults ==
    {FromAmount(a) : a \in Amounts} \cup {FromCurrencyError(e) : e \in CurrencyErrors}

IsOk(res) == res.tag = "Ok"

IsErr(res) == res.tag = "Err"

\* ------------------------------------------------------------- Decimal
DecAbs(v) == IF v < 0 THEN 0 - v ELSE v

\* Decimal::is_zero
DecIsZero(r) == r = 0

\* Decimal division: the quotient rounded to a representable value.
DecDiv(v, r) ==
    IF (v < 0) = (r < 0)
    THEN DecAbs(v) \div DecAbs(r)
    ELSE 0 - (DecAbs(v) \div DecAbs(r))

\* A Decimal result that fits; an operation whose result does not fit aborts.
Fits(v) == v \in DecimalRange

AmountFits(amount) == Fits(amount.value)

ResultFits(res) == IsOk(res) => AmountFits(res.val)

\* ------------------------------------------------------------- Amount
\* Amount::value
AmountValue(self) == self.value

\* Amount::currency
AmountCurrency(self) == self.currency

\* Amount::abs
AmountAbs(self) == AmountNew(DecAbs(self.value), self.currency)

\* Amount::converted_to
AmountConvertedTo(self, target_currency, exchange_rate) ==
    AmountNew(self.value * exchange_rate, target_currency)

\* Option<Ordering>
None == [some |-> FALSE, ord |-> "-"]

Some(ord) == [some |-> TRUE, ord |-> ord]

\* Decimal::partial_cmp: a total order on Decimal values
DecPartialCmp(v, w) ==
    IF v < w THEN Some("Less")
    ELSE IF v > w THEN Some("Greater")
    ELSE Some("Equal")

\* Faulty variant of AmountPartialCmp: the currencies are not looked at.
AmountPartialCmpIgnoresCurrency(self, other) ==
    DecPartialCmp(self.value, other.value)

\* impl PartialOrd<Amount> for Amount
AmountPartialCmp(self, other) ==
    IF self.currency = other.currency
    THEN DecPartialCmp(self.value, other.value)
    ELSE None

\* PartialOrd::lt, le, gt, ge: the provided methods, from partial_cmp
AmountLt(self, other) == AmountPartialCmp(self, other) = Some("Less")

AmountLe(self, other) == AmountPartialCmp(self, other) \in {Some("Less"), Some("Equal")}

AmountGt(self, other) == AmountPartialCmp(self, other) = Some("Greater")

AmountGe(self, other) == AmountPartialCmp(self, other) \in {Some("Greater"), Some("Equal")}

\* #[derive(PartialEq)] on struct Amount: field by field
AmountEqAmount(self, other) ==
    self.value = other.value /\ self.currency = other.currency

\* Faulty variant of CurrencyErrorEq: only the variants are compared.
CurrencyErrorEqKindOnly(self, other) == self.kind = other.kind

\* #[derive(PartialEq)] on enum CurrencyError: variant and payload, in order
CurrencyErrorEq(self, other) ==
    /\ self.kind = other.kind
    /\ self.kind = "Mismatch" => (self.c1 = other.c1 /\ self.c2 = other.c2)

\* impl Deref for Amount: a shared reference to the value
AmountDeref(self) == self.value

\* impl DerefMut for Amount: an exclusive reference to the value, written
\* through by the caller (*amt = v)
AmountDerefMutAssign(self, v) == [self EXCEPT !.value = v]

\* Faulty variant of NegAmount: the result is never positive.
NegAmountNeverPositive(self) == AmountNew(0 - DecAbs(self.value), self.currency)

\* impl Neg for Amount
NegAmount(self) == AmountNew(0 - self.value, self.currency)

\* impl Mul<Decimal> for Amount
AmountMulDecimal(self, rhs) == AmountNew(self.value * rhs, self.currency)

\* Faulty variant of AmountAddAmount: the quantities are subtracted.
AmountAddAmountSubtracts(self, rhs) ==
    IF self.currency = rhs.currency
    THEN FromAmount(AmountNew(self.value - rhs.value, self.currency))
    ELSE FromCurrencyError(Mismatch(self.currency, rhs.currency))

\* impl Add<Amount> for Amount
AmountAddAmount(self, rhs) ==
    IF self.currency = rhs.currency
    THEN FromAmount(AmountNew(self.value + rhs.value, self.currency))
    ELSE FromCurrencyError(Mismatch(self.currency, rhs.currency))

\* Faulty variant of AmountAddAmountResult: Unknown on the right is treated as any error.
AmountAddAmountResultNoIdentity(self, rhs) ==
    IF IsOk(rhs) THEN AmountAddAmount(self, rhs.val)
    ELSE FromCurrencyError(rhs.val)

\* Faulty variant of AmountAddAmountResult: every error on the right is skipped.
AmountAddAmountResultDropsError(self, rhs) ==
    IF IsOk(rhs) THEN AmountAddAmount(self, rhs.val)
    ELSE FromAmount(self)

\* impl Add<AmountResult> for Amount
AmountAddAmountResult(self, rhs) ==
    IF IsOk(rhs) THEN AmountAddAmount(self, rhs.val)
    ELSE IF rhs.val = Unknown THEN FromAmount(self)
    ELSE FromCurrencyError(rhs.val)

\* Faulty variant of AmountSubAmount: the Mismatch payload names the right operand first.
AmountSubAmountSwapped(self, rhs) ==
    IF self.currency = rhs.currency
    THEN FromAmount(AmountNew(self.value - rhs.value, self.currency))
    ELSE FromCurrencyError(Mismatch(rhs.currency, self.currency))

\* impl Sub<Amount> for Amount
AmountSubAmount(self, rhs) ==
    IF self.currency = rhs.currency
    THEN FromAmount(AmountNew(self.value - rhs.value, self.currency))
    ELSE FromCurrencyError(Mismatch(self.currency, rhs.currency))

\* Faulty variant of AmountSubAmountResult: a success on the right is added.
AmountSubAmountResultAdds(self, rhs) ==
    IF IsOk(rhs) THEN AmountAddAmount(self, rhs.val)
    ELSE IF rhs.val = Unknown THEN FromAmount(self)
    ELSE FromCurrencyError(rhs.val)

\* impl Sub<AmountResult> for Amount
AmountSubAmountResult(self, rhs) ==
    IF IsOk(rhs) THEN AmountSubAmount(self, rhs.val)
    ELSE IF rhs.val = Unknown THEN FromAmount(self)
    ELSE FromCurrencyError(rhs.val)

\* Faulty variant of AmountDivDecimal: a zero divisor yields a zero Amount.
AmountDivDecimalZeroQuotient(self, rhs) ==
    IF DecIsZero(rhs)
    THEN FromAmount(AmountNew(0, self.currency))
    ELSE FromAmount(AmountNew(DecDiv(self.value, rhs), self.currency))

\* Faulty variant of AmountDivDecimal: a zero divisor yields Unknown.
AmountDivDecimalUnknownOnZero(self, rhs) ==
    IF DecIsZero(rhs) THEN FromCurrencyError(Unknown)
    ELSE FromAmount(AmountNew(DecDiv(self.value, rhs), self.currency))

\* impl Div<Decimal> for Amount
AmountDivDecimal(self, rhs) ==
    IF DecIsZero(rhs)
    THEN FromCurrencyError(DivideByZero)
    ELSE FromAmount(AmountNew(DecDiv(self.value, rhs), self.currency))

\* ------------------------------------------------------------- AmountResult
\* AmountResult::abs
AmountResultAbs(self) ==
    IF IsOk(self) THEN Ok(AmountAbs(self.val)) ELSE Err(self.val)

\* AmountResult::converted_to
AmountResultConvertedTo(self, target_currency, exchange_rate) ==
    IF IsOk(self) THEN Ok(AmountConvertedTo(self.val, target_currency, exchange_rate))
    ELSE Err(self.val)

\* impl PartialEq<AmountResult> for Amount
AmountEqAmountResult(self, other) ==
    IF IsOk(other) THEN AmountEqAmount(self, other.val) ELSE FALSE

\* impl PartialEq<Amount> for AmountResult
AmountResultEqAmount(self, other) ==
    IF IsOk(self) THEN AmountEqAmount(self.val, other) ELSE FALSE

\* impl PartialEq<AmountResult> for CurrencyError
CurrencyErrorEqAmountResult(self, other) ==
    IF IsOk(other) THEN FALSE ELSE CurrencyErrorEq(self, other.val)

\* impl PartialEq<CurrencyError> for AmountResult
AmountResultEqCurrencyError(self, other) ==
    IF IsOk(self) THEN FALSE ELSE CurrencyErrorEq(self.val, other)

\* impl Neg for AmountResult
NegAmountResult(self) ==
    IF IsOk(self) THEN FromAmount(NegAmount(self.val))
    ELSE FromCurrencyError(self.val)

\* Faulty variant of AmountResultMulDecimal: the error held is forgotten.
AmountResultMulDecimalForgetsError(self, rhs) ==
    IF IsOk(self) THEN FromAmount(AmountMulDecimal(self.val, rhs))
    ELSE FromCurrencyError(Unknown)

\* impl Mul<Decimal> for AmountResult
AmountResultMulDecimal(self, rhs) ==
    IF IsOk(self) THEN FromAmount(AmountMulDecimal(self.val, rhs))
    ELSE FromCurrencyError(self.val)

\* Faulty variant of AmountResultDivDecimal: the zero check comes before the error check.
AmountResultDivDecimalZeroFirst(self, rhs) ==
    IF DecIsZero(rhs) THEN FromCurrencyError(DivideByZero)
    ELSE IF IsOk(self) THEN FromAmount(AmountNew(DecDiv(self.val.value, rhs), self.val.currency))
    ELSE FromCurrencyError(self.val)

\* impl Div<Decimal> for AmountResult
AmountResultDivDecimal(self, rhs) ==
    IF IsOk(self) THEN AmountDivDecimal(self.val, rhs)
    ELSE FromCurrencyError(self.val)

\* Faulty variant of AmountResultAddAmountResult: any error on the left is skipped.
AmountResultAddAmountResultSkipsError(self, rhs) ==
    IF IsOk(self) THEN AmountAddAmountResult(self.val, rhs)
    ELSE rhs

\* impl Add<AmountResult> for AmountResult
AmountResultAddAmountResult(self, rhs) ==
    IF IsOk(self) THEN AmountAddAmountResult(self.val, rhs)
    ELSE IF self.val = Unknown THEN rhs
    ELSE FromCurrencyError(self.val)

\* Faulty variant of AmountResultAddAmount: Unknown on the left is kept as an error.
AmountResultAddAmountKeepsUnknown(self, rhs) ==
    IF IsOk(self) THEN AmountAddAmount(self.val, rhs)
    ELSE FromCurrencyError(self.val)

\* impl Add<Amount> for AmountResult
AmountResultAddAmount(self, rhs) ==
    IF IsOk(self) THEN AmountAddAmount(self.val, rhs)
    ELSE IF self.val = Unknown THEN FromAmount(rhs)
    ELSE FromCurrencyError(self.val)

\* Faulty variant of AmountResultSubAmountResult: Unknown on the left yields rhs as it is.
AmountResultSubAmountResultNoNeg(self, rhs) ==
    IF IsOk(self) THEN AmountSubAmountResult(self.val, rhs)
    ELSE IF self.val = Unknown THEN rhs
    ELSE FromCurrencyError(self.val)

\* impl Sub<AmountResult> for AmountResult
AmountResultSubAmountResult(self, rhs) ==
    IF IsOk(self) THEN AmountSubAmountResult(self.val, rhs)
    ELSE IF self.val = Unknown THEN NegAmountResult(rhs)
    ELSE FromCurrencyError(self.val)

\* Faulty variant of AmountResultSubAmount: the operands of the subtraction are swapped.
AmountResultSubAmountSwapped(self, rhs) ==
    IF IsOk(self) THEN AmountSubAmount(rhs, self.val)
    ELSE IF self.val = Unknown THEN FromAmount(NegAmount(rhs))
    ELSE FromCurrencyError(self.val)

\* impl Sub<Amount> for AmountResult
AmountResultSubAmount(self, rhs) ==
    IF IsOk(self) THEN AmountSubAmount(self.val, rhs)
    ELSE IF self.val = Unknown THEN FromAmount(NegAmount(rhs))
    ELSE FromCurrencyError(self.val)

\* ------------------------------------------------------------- sum
\* Faulty variant of FoldAmountResult: the closure adds its operands the other way round.
RECURSIVE FoldAmountResultSwapped(_, _)
FoldAmountResultSwapped(a, iter) ==
    IF iter = <<>> THEN a
    ELSE FoldAmountResultSwapped(AmountResultAddAmountResult(Head(iter), a), Tail(iter))

\* Iterator::fold(init, |a, b| a + b) over AmountResult items
RECURSIVE FoldAmountResult(_, _)
FoldAmountResult(a, iter) ==
    IF iter = <<>> THEN a
    ELSE FoldAmountResult(AmountResultAddAmountResult(a, Head(iter)), Tail(iter))

\* Iterator::fold(init, |a, b| a + b) over Amount items
RECURSIVE FoldAmount(_, _)
FoldAmount(a, iter) ==
    IF iter = <<>> THEN a
    ELSE FoldAmount(AmountResultAddAmount(a, Head(iter)), Tail(iter))

\* Faulty variant of SumAmountResult: the first item is not consumed before the fold.
SumAmountResultKeepsFirst(iter) ==
    IF iter # <<>>
    THEN FoldAmountResult(Head(iter), iter)
    ELSE FromCurrencyError(Unknown)

\* impl Sum<AmountResult> for AmountResult
SumAmountResult(iter) ==
    IF iter # <<>>
    THEN FoldAmountResult(Head(iter), Tail(iter))
    ELSE FromCurrencyError(Unknown)

\* impl Sum<Amount> for AmountResult
SumAmount(iter) ==
    IF iter # <<>>
    THEN FoldAmount(FromAmount(Head(iter)), Tail(iter))
    ELSE FromCurrencyError(Unknown)

\* impl Sum<&AmountResult> for AmountResult: iter.copied().sum()
SumAmountResultRef(iter) == SumAmountResult(iter)

\* impl Sum<&Amount> for AmountResult: iter.copied().sum()
SumAmountRef(iter) == SumAmount(iter)

\* ------------------------------------------------------------- state machine
\* The operand slots of a call record hold records only: a missing operand
\* and a Decimal scalar are wrapped, so any two call records compare.
NoOperand == [none |-> TRUE]

Scalar(r) == [scalar |-> r]

NoCall == [op |-> "none", lhs |-> NoOperand, rhs |-> NoOperand, out |-> NoOperand]

Call(op, lhs, rhs, out) == [op |-> op, lhs |-> lhs, rhs |-> rhs, out |-> out]

\* A call that returns an AmountResult: the caller binds it (let accum = ...,
\* or *self = ... for the assigning forms).
Returns(op, lhs, rhs, out) ==
    /\ accum' = out
    /\ last' = Call(op, lhs, rhs, out)

\* A call that returns a bare Amount: no AmountResult is bound.
ReturnsAmount(op, lhs, rhs, out) ==
    /\ accum' = accum
    /\ last' = Call(op, lhs, rhs, out)

\* let mut accum = AmountResult::from(...)
Init ==
    /\ accum \in AmountResults
    /\ last = NoCall
    /\ items = <<>>
    /\ amt = AmountNew(0, "EUR")

\* ---- calls whose receiver is a bare Amount
CallNegAmount ==
    \E a \in Amounts :
        /\ AmountFits(NegAmount(a))
        /\ ReturnsAmount("neg_amount", a, NoOperand, NegAmount(a))
        /\ UNCHANGED <<items, amt>>

CallAmountMulDecimal ==
    \E a \in Amounts, r \in Decimals :
        /\ AmountFits(AmountMulDecimal(a, r))
        /\ ReturnsAmount("amount_mul_decimal", a, Scalar(r),
                         AmountMulDecimal(a, r))
        /\ UNCHANGED <<items, amt>>

CallAmountAddAmount ==
    \E a \in Amounts, b \in Amounts :
        /\ ResultFits(AmountAddAmount(a, b))
        /\ Returns("amount_add_amount", a, b,
                   AmountAddAmount(a, b))
        /\ UNCHANGED <<items, amt>>

CallAmountAddAmountResult ==
    \E a \in Amounts, y \in AmountResults :
        /\ ResultFits(AmountAddAmountResult(a, y))
        /\ Returns("amount_add_amount_result", a, y,
                   AmountAddAmountResult(a, y))
        /\ UNCHANGED <<items, amt>>

CallAmountSubAmount ==
    \E a \in Amounts, b \in Amounts :
        /\ ResultFits(AmountSubAmount(a, b))
        /\ Returns("amount_sub_amount", a, b,
                   AmountSubAmount(a, b))
        /\ UNCHANGED <<items, amt>>

CallAmountSubAmountResult ==
    \E a \in Amounts, y \in AmountResults :
        /\ ResultFits(AmountSubAmountResult(a, y))
        /\ Returns("amount_sub_amount_result", a, y,
                   AmountSubAmountResult(a, y))
        /\ UNCHANGED <<items, amt>>

CallAmountDivDecimal ==
    \E a \in Amounts, r \in Decimals :
        /\ ResultFits(AmountDivDecimal(a, r))
        /\ Returns("amount_div_decimal", a, Scalar(r),
                   AmountDivDecimal(a, r))
        /\ UNCHANGED <<items, amt>>

\* ---- calls whose receiver is the AmountResult held in accum
CallNegAmountResult ==
    /\ ResultFits(NegAmountResult(accum))
    /\ Returns("neg_amount_result", accum, NoOperand,
               NegAmountResult(accum))
    /\ UNCHANGED <<items, amt>>

CallAmountResultMulDecimal ==
    \E r \in Decimals :
        /\ ResultFits(AmountResultMulDecimal(accum, r))
        /\ Returns("amount_result_mul_decimal", accum, Scalar(r),
                   AmountResultMulDecimal(accum, r))
        /\ UNCHANGED <<items, amt>>

CallAmountResultDivDecimal ==
    \E r \in Decimals :
        /\ ResultFits(AmountResultDivDecimal(accum, r))
        /\ Returns("amount_result_div_decimal", accum, Scalar(r),
                   AmountResultDivDecimal(accum, r))
        /\ UNCHANGED <<items, amt>>

CallAmountResultAddAmountResult ==
    \E y \in AmountResults :
        /\ ResultFits(AmountResultAddAmountResult(accum, y))
        /\ Returns("amount_result_add_amount_result", accum, y,
                   AmountResultAddAmountResult(accum, y))
        /\ UNCHANGED <<items, amt>>

CallAmountResultAddAmount ==
    \E b \in Amounts :
        /\ ResultFits(AmountResultAddAmount(accum, b))
        /\ Returns("amount_result_add_amount", accum, b,
                   AmountResultAddAmount(accum, b))
        /\ UNCHANGED <<items, amt>>

CallAmountResultSubAmountResult ==
    \E y \in AmountResults :
        /\ ResultFits(AmountResultSubAmountResult(accum, y))
        /\ Returns("amount_result_sub_amount_result", accum, y,
                   AmountResultSubAmountResult(accum, y))
        /\ UNCHANGED <<items, amt>>

CallAmountResultSubAmount ==
    \E b \in Amounts :
        /\ ResultFits(AmountResultSubAmount(accum, b))
        /\ Returns("amount_result_sub_amount", accum, b,
                   AmountResultSubAmount(accum, b))
        /\ UNCHANGED <<items, amt>>

\* impl AddAssign<Amount> for AmountResult: *self = *self + rhs
AddAssignAmount ==
    \E b \in Amounts :
        /\ ResultFits(AmountResultAddAmount(accum, b))
        /\ Returns("amount_result_add_assign_amount", accum, b,
                   AmountResultAddAmount(accum, b))
        /\ UNCHANGED <<items, amt>>

\* impl AddAssign<AmountResult> for AmountResult: *self = *self + rhs
AddAssignAmountResult ==
    \E y \in AmountResults :
        /\ ResultFits(AmountResultAddAmountResult(accum, y))
        /\ Returns("amount_result_add_assign_amount_result", accum, y,
                   AmountResultAddAmountResult(accum, y))
        /\ UNCHANGED <<items, amt>>

\* impl SubAssign<Amount> for AmountResult: *self = *self - rhs
SubAssignAmount ==
    \E b \in Amounts :
        /\ ResultFits(AmountResultSubAmount(accum, b))
        /\ Returns("amount_result_sub_assign_amount", accum, b,
                   AmountResultSubAmount(accum, b))
        /\ UNCHANGED <<items, amt>>

\* impl SubAssign<AmountResult> for AmountResult: *self = *self - rhs
SubAssignAmountResult ==
    \E y \in AmountResults :
        /\ ResultFits(AmountResultSubAmountResult(accum, y))
        /\ Returns("amount_result_sub_assign_amount_result", accum, y,
                   AmountResultSubAmountResult(accum, y))
        /\ UNCHANGED <<items, amt>>

Next ==
    \/ CallNegAmount
    \/ CallAmountMulDecimal
    \/ CallAmountAddAmount
    \/ CallAmountAddAmountResult
    \/ CallAmountSubAmount
    \/ CallAmountSubAmountResult
    \/ CallAmountDivDecimal
    \/ CallNegAmountResult
    \/ CallAmountResultMulDecimal
    \/ CallAmountResultDivDecimal
    \/ CallAmountResultAddAmountResult
    \/ CallAmountResultAddAmount
    \/ CallAmountResultSubAmountResult
    \/ CallAmountResultSubAmount
    \/ AddAssignAmount
    \/ AddAssignAmountResult
    \/ SubAssignAmount
    \/ SubAssignAmountResult

Spec == Init /\ [][Next]_vars

\* ------------------------------------------------------------- sum machine
BoundedSeq(S) == UNION {[1..n -> S] : n \in 0..MaxLen}

Prefix(seq, k) == SubSeq(seq, 1, k)

\* The collection is built first; sum is then applied to it.
InitSum ==
    /\ accum = FromCurrencyError(Unknown)
    /\ last = NoCall
    /\ items \in BoundedSeq(Amounts) \cup BoundedSeq(AmountResults)
    /\ amt = AmountNew(0, "EUR")

IsAmountSeq(seq) == \A i \in 1..Len(seq) : seq[i] \in Amounts

IsAmountResultSeq(seq) == \A i \in 1..Len(seq) : seq[i] \in AmountResults

\* The fold aborts at the first partial sum that does not fit.
CallSumAmount ==
    /\ IsAmountSeq(items)
    /\ \A k \in 1..Len(items) : ResultFits(SumAmount(Prefix(items, k)))
    /\ Returns("sum_amount", NoOperand, NoOperand, SumAmount(items))
    /\ UNCHANGED <<items, amt>>

CallSumAmountRef ==
    /\ IsAmountSeq(items)
    /\ \A k \in 1..Len(items) : ResultFits(SumAmountRef(Prefix(items, k)))
    /\ Returns("sum_amount_ref", NoOperand, NoOperand, SumAmountRef(items))
    /\ UNCHANGED <<items, amt>>

CallSumAmountResult ==
    /\ IsAmountResultSeq(items)
    /\ \A k \in 1..Len(items) : ResultFits(SumAmountResult(Prefix(items, k)))
    /\ Returns("sum_amount_result", NoOperand, NoOperand, SumAmountResult(items))
    /\ UNCHANGED <<items, amt>>

CallSumAmountResultRef ==
    /\ IsAmountResultSeq(items)
    /\ \A k \in 1..Len(items) : ResultFits(SumAmountResultRef(Prefix(items, k)))
    /\ Returns("sum_amount_result_ref", NoOperand, NoOperand, SumAmountResultRef(items))
    /\ UNCHANGED <<items, amt>>

NextSum ==
    \/ CallSumAmount
    \/ CallSumAmountRef
    \/ CallSumAmountResult
    \/ CallSumAmountResultRef

SpecSum == InitSum /\ [][NextSum]_vars

\* ------------------------------------------------------------- calls on an Amount binding
\* A bool, a Currency and a Decimal as recorded results of a call.
Bool(b) == [bool |-> b]

CurrencyOf(c) == [code |-> c]

\* let mut amt = Amount::new(...); let accum = AmountResult::from(...)
InitAmount ==
    /\ amt \in Amounts
    /\ accum \in AmountResults
    /\ last = NoCall
    /\ items = <<>>

\* A call that takes the binding by shared reference or by copy.
ReadsAmount(op, rhs, out) ==
    /\ last' = Call(op, amt, rhs, out)
    /\ amt' = amt

CallAmountValue ==
    /\ ReadsAmount("amount_value", NoOperand, Scalar(AmountValue(amt)))
    /\ UNCHANGED <<accum, items>>

CallAmountCurrency ==
    /\ ReadsAmount("amount_currency", NoOperand, CurrencyOf(AmountCurrency(amt)))
    /\ UNCHANGED <<accum, items>>

CallAmountAbs ==
    /\ ReadsAmount("amount_abs", NoOperand, AmountAbs(amt))
    /\ UNCHANGED <<accum, items>>

CallAmountConvertedTo ==
    \E target_currency \in Currencies, exchange_rate \in Decimals :
        /\ AmountFits(AmountConvertedTo(amt, target_currency, exchange_rate))
        /\ ReadsAmount("amount_converted_to",
                       [currency |-> target_currency, rate |-> exchange_rate],
                       AmountConvertedTo(amt, target_currency, exchange_rate))
        /\ UNCHANGED <<accum, items>>

CallAmountDeref ==
    /\ ReadsAmount("amount_deref", NoOperand, Scalar(AmountDeref(amt)))
    /\ UNCHANGED <<accum, items>>

\* *amt = v: the caller writes through the reference deref_mut returned
CallAmountDerefMut ==
    \E v \in Decimals :
        /\ amt' = AmountDerefMutAssign(amt, v)
        /\ last' = Call("amount_deref_mut", amt, Scalar(v), NoOperand)
        /\ UNCHANGED <<accum, items>>

CallAmountPartialCmp ==
    \E other \in Amounts :
        /\ ReadsAmount("amount_partial_cmp", other, AmountPartialCmp(amt, other))
        /\ UNCHANGED <<accum, items>>

CallAmountLt ==
    \E other \in Amounts :
        /\ ReadsAmount("amount_lt", other, Bool(AmountLt(amt, other)))
        /\ UNCHANGED <<accum, items>>

CallAmountLe ==
    \E other \in Amounts :
        /\ ReadsAmount("amount_le", other, Bool(AmountLe(amt, other)))
        /\ UNCHANGED <<accum, items>>

CallAmountGt ==
    \E other \in Amounts :
        /\ ReadsAmount("amount_gt", other, Bool(AmountGt(amt, other)))
        /\ UNCHANGED <<accum, items>>

CallAmountGe ==
    \E other \in Amounts :
        /\ ReadsAmount("amount_ge", other, Bool(AmountGe(amt, other)))
        /\ UNCHANGED <<accum, items>>

CallAmountEqAmount ==
    \E other \in Amounts :
        /\ ReadsAmount("amount_eq_amount", other, Bool(AmountEqAmount(amt, other)))
        /\ UNCHANGED <<accum, items>>

CallAmountEqAmountResult ==
    /\ ReadsAmount("amount_eq_amount_result", accum,
                   Bool(AmountEqAmountResult(amt, accum)))
    /\ UNCHANGED <<accum, items>>

CallAmountResultEqAmount ==
    /\ last' = Call("amount_result_eq_amount", accum, amt,
                    Bool(AmountResultEqAmount(accum, amt)))
    /\ UNCHANGED <<accum, items, amt>>

CallCurrencyErrorEqAmountResult ==
    \E error \in CurrencyErrors :
        /\ last' = Call("error_eq_amount_result", error, accum,
                        Bool(CurrencyErrorEqAmountResult(error, accum)))
        /\ UNCHANGED <<accum, items, amt>>

CallAmountResultEqCurrencyError ==
    \E error \in CurrencyErrors :
        /\ last' = Call("amount_result_eq_error", accum, error,
                        Bool(AmountResultEqCurrencyError(accum, error)))
        /\ UNCHANGED <<accum, items, amt>>

NextAmount ==
    \/ CallAmountValue
    \/ CallAmountCurrency
    \/ CallAmountAbs
    \/ CallAmountConvertedTo
    \/ CallAmountDeref
    \/ CallAmountDerefMut
    \/ CallAmountPartialCmp
    \/ CallAmountLt
    \/ CallAmountLe
    \/ CallAmountGt
    \/ CallAmountGe
    \/ CallAmountEqAmount
    \/ CallAmountEqAmountResult
    \/ CallAmountResultEqAmount
    \/ CallCurrencyErrorEqAmountResult
    \/ CallAmountResultEqCurrencyError
    \/ CallNegAmount
    \/ CallAmountMulDecimal
    \/ CallAmountDivDecimal
    \/ CallAmountAddAmount
    \/ CallAmountSubAmount
    \/ CallAmountAddAmountResult
    \/ CallAmountSubAmountResult

SpecAmount == InitAmount /\ [][NextAmount]_vars

\* ------------------------------------------------------------- accumulator machine
\* let amt = Amount::new(...); let mut accum = AmountResult::from(amt)
InitAccum ==
    /\ amt \in Amounts
    /\ accum = FromAmount(amt)
    /\ last = NoCall
    /\ items = <<>>

\* accum = accum.abs()
CallAmountResultAbs ==
    /\ Returns("amount_result_abs", accum, NoOperand, AmountResultAbs(accum))
    /\ UNCHANGED <<items, amt>>

NextAccum ==
    \/ CallNegAmountResult
    \/ CallAmountResultAbs
    \/ CallAmountResultMulDecimal
    \/ CallAmountResultDivDecimal
    \/ CallAmountResultAddAmountResult
    \/ CallAmountResultAddAmount
    \/ CallAmountResultSubAmountResult
    \/ CallAmountResultSubAmount
    \/ AddAssignAmount
    \/ AddAssignAmountResult
    \/ SubAssignAmount
    \/ SubAssignAmountResult

SpecAccum == InitAccum /\ [][NextAccum]_vars

\* ------------------------------------------------------------- properties
\* A non-Unknown error (Mismatch or DivideByZero) held by an AmountResult.
IsLatched(res) == IsErr(res) /\ res.val # Unknown

\* C1: for Amounts a, b of different currencies, a + b and a - b are both the
\* error Mismatch(currency(a), currency(b)): left operand's currency first.
C1_MismatchKeepsOperandOrder ==
    (/\ last.op \in {"amount_add_amount", "amount_sub_amount"}
     /\ last.lhs.currency # last.rhs.currency)
        => last.out = Err(Mismatch(last.lhs.currency, last.rhs.currency))

C1_Witness ==
    /\ last.op = "amount_sub_amount"
    /\ last.lhs.currency = "EUR"
    /\ last.rhs.currency = "USD"
    /\ last.out = Err(Mismatch("EUR", "USD"))

\* Calls whose receiver (left operand) is the AmountResult held in accum.
AddOpsOnResult ==
    {"amount_result_add_amount", "amount_result_add_amount_result",
     "amount_result_add_assign_amount", "amount_result_add_assign_amount_result"}

SubOpsOnResult ==
    {"amount_result_sub_amount", "amount_result_sub_amount_result",
     "amount_result_sub_assign_amount", "amount_result_sub_assign_amount_result"}

ReceiverOps ==
    AddOpsOnResult \cup SubOpsOnResult \cup
    {"amount_result_mul_decimal", "amount_result_div_decimal", "neg_amount_result"}

\* C2: once the accumulator holds a non-Unknown error e, every +, -, +=, -=
\* (Amount or AmountResult operand), scalar * and / (zero included) and
\* negation with it as receiver yields exactly e again.
C2_LatchedErrorIsAbsorbing ==
    [][(IsLatched(accum) /\ last'.op \in ReceiverOps)
          => (last'.lhs = accum /\ last'.out = accum /\ accum' = accum)]_vars

C2_Witness ==
    /\ last.op = "amount_result_div_decimal"
    /\ last.rhs = Scalar(0)
    /\ last.lhs = Err(Mismatch("EUR", "USD"))
    /\ accum = Err(Mismatch("EUR", "USD"))

\* C3: Unknown is a two-sided identity for +: Unknown + x = x and
\* x + Unknown = x for every AmountResult x, and for a bare Amount x the
\* result is the success wrapping x.
C3_UnknownIsAddIdentity ==
    /\ (/\ last.op \in {"amount_result_add_amount_result",
                        "amount_result_add_assign_amount_result"}
        /\ last.lhs = Err(Unknown))
           => last.out = last.rhs
    /\ (/\ last.op \in {"amount_result_add_amount_result",
                        "amount_result_add_assign_amount_result"}
        /\ last.rhs = Err(Unknown))
           => last.out = last.lhs
    /\ (/\ last.op \in {"amount_result_add_amount", "amount_result_add_assign_amount"}
        /\ last.lhs = Err(Unknown))
           => last.out = Ok(last.rhs)
    /\ (/\ last.op = "amount_add_amount_result"
        /\ last.rhs = Err(Unknown))
           => last.out = Ok(last.lhs)

C3_Witness ==
    /\ last.op = "amount_result_add_amount_result"
    /\ IsOk(last.lhs)
    /\ last.rhs = Err(Unknown)
    /\ last.out = last.lhs

SumOpsOnAmounts == {"sum_amount", "sum_amount_ref"}

SumOpsOnResults == {"sum_amount_result", "sum_amount_result_ref"}

SumOps == SumOpsOnAmounts \cup SumOpsOnResults

\* The items of a sum call, each Amount taken as a success AmountResult.
AsResults(op, seq) ==
    IF op \in SumOpsOnAmounts THEN [i \in 1..Len(seq) |-> Ok(seq[i])] ELSE seq

\* The sum impl a call went through, applied to another collection.
SumBy(op, seq) ==
    CASE op = "sum_amount" -> SumAmount(seq)
      [] op = "sum_amount_ref" -> SumAmountRef(seq)
      [] op = "sum_amount_result" -> SumAmountResult(seq)
      [] op = "sum_amount_result_ref" -> SumAmountResultRef(seq)

\* The + rule folded left to right over the first k items, starting from Unknown.
RECURSIVE LeftFoldFromUnknown(_, _)
LeftFoldFromUnknown(seq, k) ==
    IF k = 0 THEN Err(Unknown)
    ELSE AmountResultAddAmountResult(LeftFoldFromUnknown(seq, k - 1), seq[k])

\* C4: the sum of a sequence of AmountResults (or of Amounts, each taken as a
\* success) is the left-to-right fold of + starting from Unknown: [] gives
\* Unknown, [a] gives a, [a, Unknown, b] gives a + b for same-currency a, b.
C4_SumIsLeftFoldFromUnknown ==
    last.op \in SumOps =>
        LET seq == AsResults(last.op, items) IN
        /\ last.out = LeftFoldFromUnknown(seq, Len(seq))
        /\ Len(seq) = 0 => last.out = Err(Unknown)
        /\ Len(seq) = 1 => last.out = seq[1]
        /\ (/\ Len(seq) = 3
            /\ IsOk(seq[1]) /\ seq[2] = Err(Unknown) /\ IsOk(seq[3])
            /\ seq[1].val.currency = seq[3].val.currency)
               => last.out = Ok(AmountNew(seq[1].val.value + seq[3].val.value,
                                          seq[1].val.currency))

C4_Witness ==
    /\ last.op = "sum_amount_result_ref"
    /\ Len(items) = 3
    /\ IsOk(items[1]) /\ items[2] = Err(Unknown) /\ IsOk(items[3])
    /\ items[1].val.value = 1 /\ items[3].val.value = 1
    /\ last.out = Ok(AmountNew(2, "EUR"))

HasLatchedItem(seq) == \E i \in 1..Len(seq) : IsLatched(seq[i])

HasCurrencyClash(seq) ==
    \E i \in 1..Len(seq), j \in 1..Len(seq) :
        /\ i < j
        /\ IsOk(seq[i]) /\ IsOk(seq[j])
        /\ seq[i].val.currency # seq[j].val.currency

\* Item k is where an error first can arise: it is a non-Unknown error, or a
\* success whose currency differs from that of an earlier success.
ErrorArisesAt(seq, k) ==
    \/ IsLatched(seq[k])
    \/ /\ IsOk(seq[k])
       /\ \E i \in 1..(k - 1) : IsOk(seq[i]) /\ seq[i].val.currency # seq[k].val.currency

FirstErrorOf(seq) ==
    LET k == CHOOSE n \in 1..Len(seq) :
                 ErrorArisesAt(seq, n) /\ \A j \in 1..(n - 1) : ~ErrorArisesAt(seq, j)
    IN  IF IsErr(seq[k]) THEN seq[k].val
        ELSE LET i == CHOOSE n \in 1..(k - 1) : IsOk(seq[n])
             IN  Mismatch(seq[i].val.currency, seq[k].val.currency)

\* C5: a sequence holding a non-Unknown error item, or two successes of
\* different currencies, sums to a non-Unknown error: the first one to arise
\* left to right, which is the sum of the shortest prefix whose sum is a
\* non-Unknown error, whatever follows.
C5_FirstErrorPoisonsSum ==
    (/\ last.op \in SumOps
     /\ \/ HasLatchedItem(AsResults(last.op, items))
        \/ HasCurrencyClash(AsResults(last.op, items)))
        => /\ IsLatched(last.out)
           /\ last.out = Err(FirstErrorOf(AsResults(last.op, items)))
           /\ \E k \in 1..Len(items) :
                  /\ IsLatched(SumBy(last.op, Prefix(items, k)))
                  /\ \A j \in 0..(k - 1) : ~IsLatched(SumBy(last.op, Prefix(items, j)))
                  /\ last.out = SumBy(last.op, Prefix(items, k))

C5_Witness ==
    /\ last.op = "sum_amount_result"
    /\ Len(items) = 3
    /\ items[1] = Ok(AmountNew(1, "EUR"))
    /\ items[2] = Ok(AmountNew(1, "USD"))
    /\ items[3] = Err(DivideByZero)
    /\ last.out = Err(Mismatch("EUR", "USD"))

\* C6: an AmountResult divided by a zero scalar is DivideByZero whatever it
\* held (a success, or Unknown), except that a non-Unknown error is returned
\* unchanged.
C6_ZeroDivisorYieldsDivideByZero ==
    (last.op = "amount_result_div_decimal" /\ last.rhs = Scalar(0))
        => IF IsLatched(last.lhs)
           THEN last.out = last.lhs
           ELSE last.out = Err(DivideByZero)

\* C7: a / 0 is DivideByZero for every Amount a, a / r with r # 0 is the
\* success Amount(value(a) / r, currency(a)), and DivideByZero divided by any
\* scalar is DivideByZero.
C7_AmountDivision ==
    /\ (last.op = "amount_div_decimal" /\ last.rhs = Scalar(0))
           => last.out = Err(DivideByZero)
    /\ (last.op = "amount_div_decimal" /\ last.rhs # Scalar(0))
           => last.out = Ok(AmountNew(DecDiv(last.lhs.value, last.rhs.scalar), last.lhs.currency))
    /\ (last.op = "amount_result_div_decimal" /\ last.lhs = Err(DivideByZero))
           => last.out = Err(DivideByZero)

C7_Witness ==
    /\ last.op = "amount_div_decimal"
    /\ last.lhs.value = 1
    /\ last.rhs = Scalar(0)
    /\ last.out = Err(DivideByZero)

\* C8: Unknown on the left of - negates the right operand and Unknown on the
\* right is ignored: Unknown - a = -a and a - Unknown = a for an Amount a;
\* Unknown - y = -y (Unknown - Unknown = Unknown, Unknown - Error(e) =
\* Error(e)) and y - Unknown = y for an AmountResult y.
C8_UnknownInSubtraction ==
    /\ (/\ last.op \in {"amount_result_sub_amount", "amount_result_sub_assign_amount"}
        /\ last.lhs = Err(Unknown))
           => last.out = Ok(AmountNew(0 - last.rhs.value, last.rhs.currency))
    /\ (last.op = "amount_sub_amount_result" /\ last.rhs = Err(Unknown))
           => last.out = Ok(last.lhs)
    /\ (/\ last.op \in {"amount_result_sub_amount_result",
                        "amount_result_sub_assign_amount_result"}
        /\ last.lhs = Err(Unknown))
           => /\ IsOk(last.rhs) =>
                    last.out = Ok(AmountNew(0 - last.rhs.val.value, last.rhs.val.currency))
              /\ IsErr(last.rhs) => last.out = last.rhs
    /\ (/\ last.op \in {"amount_result_sub_amount_result",
                        "amount_result_sub_assign_amount_result"}
        /\ last.rhs = Err(Unknown))
           => last.out = last.lhs

C8_Witness ==
    /\ last.op = "amount_result_sub_amount_result"
    /\ last.lhs = Err(Unknown)
    /\ last.rhs = Ok(AmountNew(1, "EUR"))
    /\ last.out = Ok(AmountNew(-1, "EUR"))

\* C9: for Amounts a = (v1, c) and b = (v2, c) of one currency, a + b is the
\* success Amount(v1 + v2, c) and a - b is the success Amount(v1 - v2, c).
C9_SameCurrencyArithmetic ==
    /\ (last.op = "amount_add_amount" /\ last.lhs.currency = last.rhs.currency)
           => last.out = Ok(AmountNew(last.lhs.value + last.rhs.value, last.lhs.currency))
    /\ (last.op = "amount_sub_amount" /\ last.lhs.currency = last.rhs.currency)
           => last.out = Ok(AmountNew(last.lhs.value - last.rhs.value, last.lhs.currency))

C9_Witness ==
    /\ last.op = "amount_add_amount"
    /\ last.lhs = AmountNew(1, "USD")
    /\ last.rhs = AmountNew(1, "USD")
    /\ last.out = Ok(AmountNew(2, "USD"))

\* C10: for same-currency Amounts a and b, (a + b) - b = a: subtracting b from
\* the AmountResult that a + b returned gives the success wrapping a.
C10_AddThenSubRestores ==
    [][(/\ last.op = "amount_add_amount"
        /\ last.lhs.currency = last.rhs.currency
        /\ last'.op \in {"amount_result_sub_amount", "amount_result_sub_assign_amount"}
        /\ last'.lhs = last.out
        /\ last'.rhs = last.rhs)
          => (last'.out = Ok(last.lhs) /\ accum' = Ok(last.lhs))]_vars

C10_Witness ==
    /\ last.op = "amount_result_sub_amount"
    /\ last.lhs = Ok(AmountNew(2, "EUR"))
    /\ last.rhs = AmountNew(1, "EUR")
    /\ last.out = Ok(AmountNew(1, "EUR"))

\* Calls of + and - whose right operand is an AmountResult.
OpsOnAmountWithResult == {"amount_add_amount_result", "amount_sub_amount_result"}

OpsOnResultWithResult ==
    {"amount_result_add_amount_result", "amount_result_add_assign_amount_result",
     "amount_result_sub_amount_result", "amount_result_sub_assign_amount_result"}

\* C11: for + and -, a success on the left (a bare Amount or an Ok
\* AmountResult) with an AmountResult on the right holding a non-Unknown error
\* e yields the error e unchanged; when both operands hold non-Unknown errors
\* the left one is returned.
C11_RightErrorPropagates ==
    /\ (last.op \in OpsOnAmountWithResult /\ IsLatched(last.rhs))
           => last.out = last.rhs
    /\ (last.op \in OpsOnResultWithResult /\ IsOk(last.lhs) /\ IsLatched(last.rhs))
           => last.out = last.rhs
    /\ (last.op \in OpsOnResultWithResult /\ IsLatched(last.lhs) /\ IsLatched(last.rhs))
           => last.out = last.lhs

C11_Witness ==
    /\ last.op = "amount_add_amount_result"
    /\ last.lhs = AmountNew(1, "EUR")
    /\ last.rhs = Err(DivideByZero)
    /\ last.out = Err(DivideByZero)

ComparisonOps == {"amount_lt", "amount_le", "amount_gt", "amount_ge", "amount_eq_amount"}

\* C12: partial_cmp(a, b) is Some(the ordering of the two values) when a and b
\* have the same currency and None when their currencies differ; hence for
\* Amounts of different currencies none of a < b, a > b, a <= b, a >= b,
\* a == b holds.
C12_CrossCurrencyIsUnordered ==
    /\ (last.op = "amount_partial_cmp" /\ last.lhs.currency = last.rhs.currency)
           => /\ last.lhs.value < last.rhs.value => last.out = Some("Less")
              /\ last.lhs.value = last.rhs.value => last.out = Some("Equal")
              /\ last.lhs.value > last.rhs.value => last.out = Some("Greater")
    /\ (last.op = "amount_partial_cmp" /\ last.lhs.currency # last.rhs.currency)
           => last.out = None
    /\ (last.op \in ComparisonOps /\ last.lhs.currency # last.rhs.currency)
           => last.out = Bool(FALSE)

C12_Witness ==
    /\ last.op = "amount_le"
    /\ last.lhs = AmountNew(1, "EUR")
    /\ last.rhs = AmountNew(1, "USD")
    /\ last.out = Bool(FALSE)

\* C13: cross-kind equality is exact and symmetric: an Amount a equals an
\* AmountResult r iff r is the success wrapping an Amount equal to a, a
\* CurrencyError e equals r iff r is the failure wrapping an error equal to e
\* (a Mismatch payload compared in order), and a == r agrees with r == a,
\* e == r with r == e.
C13_CrossKindEquality ==
    /\ last.op = "amount_eq_amount_result"
           => /\ last.out = Bool(last.rhs = Ok(last.lhs))
              /\ last.out = Bool(AmountResultEqAmount(last.rhs, last.lhs))
    /\ last.op = "amount_result_eq_amount"
           => /\ last.out = Bool(last.lhs = Ok(last.rhs))
              /\ last.out = Bool(AmountEqAmountResult(last.rhs, last.lhs))
    /\ last.op = "error_eq_amount_result"
           => /\ last.out = Bool(last.rhs = Err(last.lhs))
              /\ last.out = Bool(AmountResultEqCurrencyError(last.rhs, last.lhs))
    /\ last.op = "amount_result_eq_error"
           => /\ last.out = Bool(last.lhs = Err(last.rhs))
              /\ last.out = Bool(CurrencyErrorEqAmountResult(last.rhs, last.lhs))

C13_Witness ==
    /\ last.op = "error_eq_amount_result"
    /\ last.lhs = Mismatch("EUR", "USD")
    /\ last.rhs = Err(Mismatch("USD", "EUR"))
    /\ last.out = Bool(FALSE)

\* C14: scaling never introduces an error and never changes the currency:
\* Amount(v, c) * r is Amount(v * r, c); an AmountResult multiplied by any
\* scalar, or divided by a non-zero scalar, has the operation applied to the
\* wrapped Amount if it is a success and is returned unchanged if it holds any
\* error (Unknown, Mismatch or DivideByZero).
C14_ScalingKeepsCurrencyAndErrors ==
    /\ last.op = "amount_mul_decimal"
           => last.out = AmountNew(last.lhs.value * last.rhs.scalar, last.lhs.currency)
    /\ (last.op = "amount_result_mul_decimal" /\ IsOk(last.lhs))
           => last.out = Ok(AmountNew(last.lhs.val.value * last.rhs.scalar,
                                      last.lhs.val.currency))
    /\ (last.op = "amount_result_div_decimal" /\ IsOk(last.lhs) /\ last.rhs # Scalar(0))
           => last.out = Ok(AmountNew(DecDiv(last.lhs.val.value, last.rhs.scalar),
                                      last.lhs.val.currency))
    /\ (/\ last.op \in {"amount_result_mul_decimal", "amount_result_div_decimal"}
        /\ IsErr(last.lhs)
        /\ last.op = "amount_result_div_decimal" => last.rhs # Scalar(0))
           => last.out = last.lhs

C14_Witness ==
    /\ last.op = "amount_result_mul_decimal"
    /\ last.lhs = Err(Unknown)
    /\ last.rhs = Scalar(0)
    /\ last.out = Err(Unknown)

\* C15: -Amount(v, c) is Amount(-v, c); negating an AmountResult negates the
\* wrapped Amount and returns every error, Unknown included, unchanged; and
\* negating twice gives back the operand, for every Amount and AmountResult.
C15_NegationIsInvolution ==
    [][/\ last'.op = "neg_amount"
           => last'.out = AmountNew(0 - last'.lhs.value, last'.lhs.currency)
       /\ (last'.op = "neg_amount_result" /\ IsOk(last'.lhs))
           => last'.out = Ok(AmountNew(0 - last'.lhs.val.value, last'.lhs.val.currency))
       /\ (last'.op = "neg_amount_result" /\ IsErr(last'.lhs))
           => last'.out = last'.lhs
       /\ (last.op = "neg_amount" /\ last'.op = "neg_amount" /\ last'.lhs = last.out)
           => last'.out = last.lhs
       /\ (/\ last.op = "neg_amount_result"
           /\ last'.op = "neg_amount_result"
           /\ last'.lhs = last.out)
           => last'.out = last.lhs]_vars

C15_Witness ==
    /\ last.op = "neg_amount_result"
    /\ last.lhs = Ok(AmountNew(-1, "USD"))
    /\ last.out = Ok(AmountNew(1, "USD"))
    /\ accum = Ok(AmountNew(1, "USD"))

\* C16: the four operand-kind overloads of + and of - agree under wrapping
\* (W = AmountResult::from): a op b = a op W(b) = W(a) op b = W(a) op W(b) for
\* Amounts a, b, and for every AmountResult y, a op y = W(a) op y and
\* y op b = y op W(b).
C16_OverloadsAgreeUnderWrapping ==
    /\ last.op = "amount_add_amount"
           => /\ last.out = AmountAddAmountResult(last.lhs, FromAmount(last.rhs))
              /\ last.out = AmountResultAddAmount(FromAmount(last.lhs), last.rhs)
              /\ last.out = AmountResultAddAmountResult(FromAmount(last.lhs),
                                                        FromAmount(last.rhs))
    /\ last.op = "amount_sub_amount"
           => /\ last.out = AmountSubAmountResult(last.lhs, FromAmount(last.rhs))
              /\ last.out = AmountResultSubAmount(FromAmount(last.lhs), last.rhs)
              /\ last.out = AmountResultSubAmountResult(FromAmount(last.lhs),
                                                        FromAmount(last.rhs))
    /\ last.op = "amount_add_amount_result"
           => last.out = AmountResultAddAmountResult(FromAmount(last.lhs), last.rhs)
    /\ last.op = "amount_sub_amount_result"
           => last.out = AmountResultSubAmountResult(FromAmount(last.lhs), last.rhs)
    /\ last.op \in {"amount_result_add_amount", "amount_result_add_assign_amount"}
           => last.out = AmountResultAddAmountResult(last.lhs, FromAmount(last.rhs))
    /\ last.op \in {"amount_result_sub_amount", "amount_result_sub_assign_amount"}
           => last.out = AmountResultSubAmountResult(last.lhs, FromAmount(last.rhs))

C16_Witness ==
    /\ last.op = "amount_result_sub_amount"
    /\ last.lhs = Err(Unknown)
    /\ last.rhs = AmountNew(1, "EUR")
    /\ last.out = Ok(AmountNew(-1, "EUR"))

\* C17: an Amount is immutable after creation: no public operation (accessors,
\* abs, converted_to, negation, scaling, division, addition, subtraction,
\* comparison, access through Deref and DerefMut) changes the value or the
\* currency of an existing Amount.
C17_AmountIsImmutable ==
    [][amt'.value = amt.value /\ amt'.currency = amt.currency]_vars

\* C18: x - y = x + (-y) for all AmountResults x and y, the order of a
\* Mismatch payload included.
C18_SubIsAddOfNegation ==
    last.op \in {"amount_result_sub_amount_result", "amount_result_sub_assign_amount_result"}
        => last.out = AmountResultAddAmountResult(last.lhs, NegAmountResult(last.rhs))

C18_Witness ==
    /\ last.op = "amount_result_sub_amount_result"
    /\ last.lhs = Ok(AmountNew(1, "EUR"))
    /\ last.rhs = Ok(AmountNew(1, "USD"))
    /\ last.out = Err(Mismatch("EUR", "USD"))

\* C19: starting from an accumulator that is a success in currency c, after
\* any finite sequence of +, -, +=, -= (with any Amount or AmountResult
\* operand), * and / by any scalar, negation and abs, the accumulator is a
\* success in currency c or a non-Unknown error: never Unknown, never a
\* success in another currency.
C19_AccumulatorKeepsCurrencyOrLatches ==
    \/ IsOk(accum) /\ accum.val.currency = amt.currency
    \/ IsLatched(accum)

C19_Witness ==
    /\ last.op = "amount_result_sub_assign_amount_result"
    /\ last.lhs = Err(Mismatch("USD", "EUR"))
    /\ last.rhs = Err(Unknown)
    /\ accum = Err(Mismatch("USD", "EUR"))
    /\ amt.currency = "USD"

\* The collection seq taken in the order p[1], p[2], ...
Permuted(seq, p) == [i \in 1..Len(seq) |-> seq[p[i]]]

\* No partial sum of seq leaves the representable range.
SumCompletes(op, seq) ==
    \A k \in 1..Len(seq) : ResultFits(SumBy(op, Prefix(seq, k)))

\* Success, Unknown, or a non-Unknown error.
KindOf(res) ==
    IF IsOk(res) THEN "success"
    ELSE IF res.val = Unknown THEN "unknown"
    ELSE "error"

\* C20: for every finite sequence of AmountResults and every permutation of
\* it, the two sums are of the same kind (both a success, both Unknown, or
\* both a non-Unknown error) and are equal when they are successes; only
\* which non-Unknown error is returned may depend on the order.
C20_SumKindIsOrderInsensitive ==
    last.op \in SumOps =>
        \A p \in Permutations(1..Len(items)) :
            SumCompletes(last.op, Permuted(items, p)) =>
                /\ KindOf(SumBy(last.op, Permuted(items, p))) = KindOf(last.out)
                /\ IsOk(last.out) => SumBy(last.op, Permuted(items, p)) = last.out

C20_Witness ==
    /\ last.op = "sum_amount_result"
    /\ items = <<Err(DivideByZero), Ok(AmountNew(1, "EUR")), Ok(AmountNew(1, "USD"))>>
    /\ last.out = Err(DivideByZero)
    /\ SumAmountResult(Permuted(items, <<2, 3, 1>>)) = Err(Mismatch("EUR", "USD"))

====
